---------------------------- MODULE Spec2Model ----------------------------
(***************************************************************************)
(* Model of scripts/generate-icon.py: draw_icon(size), the icon renderer,  *)
(* and main(), the icon-set builder.                                       *)
(*                                                                         *)
(* draw_icon is a sequence of drawing passes over one RGBA canvas.  The    *)
(* model keeps the alpha channel of the canvas at a fixed set of probe     *)
(* pixels whose coordinates are computed from size, and every pass writes  *)
(* the alpha it draws with to each probe its shape covers (ImageDraw on an *)
(* RGBA image stores the fill's alpha, it does not blend).  Lengths are    *)
(* the code's int(c * s) with s = size / 1024.0; c * size / 1024 is exact  *)
(* in a double, so int() is integer division.  Coordinates that the code   *)
(* keeps as floats (center = size / 2) are carried doubled.                *)
(*                                                                         *)
(* The library calls whose outcome depends on the installed Pillow or on   *)
(* the machine are environment choices: which system fonts can be opened   *)
(* (found out when the first font is loaded), whether the Pillow build is  *)
(* one that rejects a box with x1 < x0 and a font size <= 0 with           *)
(* ValueError, and whether a file-system call fails.                       *)
(***************************************************************************)
EXTENDS Integers, Sequences, FiniteSets, TLC

VARIABLES
    pillow,         \* the Pillow build: "lenient" or "strict"
    fontsKnown,     \* a font has been loaded on this machine
    fontsOK,        \* the system fonts ImageFont.truetype can open
    caller,         \* who called draw_icon: "none", "direct" or "main"
    size,           \* draw_icon's argument
    pc,             \* draw_icon's position
    img,            \* the canvas: alpha at each probe pixel
    dim,            \* the canvas's pixel dimensions <<w, h>>
    lens,           \* the lens geometry and the metallic strokes drawn
    font,           \* the font selected by the label pass
    exc,            \* the exception draw_icon ended with, or "none"
    passes,         \* the drawing passes that have run, in order
    mpc,            \* main's position
    runs,           \* runs of main() started so far
    dirExists,      \* the icon directory exists
    files,          \* image files on disk: filename -> pixel size
    manifest,       \* AppIcon.appiconset/Contents.json on disk
    assets,         \* Assets.xcassets/Contents.json on disk
    master,         \* main's master image
    renders,        \* the sizes draw_icon was called with in this run
    idx,            \* main's loop index into sizes
    contents_images,\* main's list of manifest entries
    printed,        \* the messages main printed in this run
    mexc,           \* the exception main ended with, or "none"
    written         \* the files written in this run, in order

envVars    == <<pillow, fontsKnown, fontsOK>>
renderVars == <<caller, size, pc, img, dim, lens, font, exc, passes>>
mainVars   == <<mpc, runs, dirExists, files, manifest, assets, master, renders,
                idx, contents_images, printed, mexc, written>>
vars       == <<envVars, renderVars, mainVars>>

(***************************************************************************)
(* Bounds of the model.                                                    *)
(***************************************************************************)
MaxSize  == 1024   \* draw_icon is called directly with sizes up to MaxSize
NegSizes == 2      \* ... and down to -NegSizes
MaxRuns  == 2      \* main() is run up to MaxRuns times in sequence

\* the sizes of the direct calls, counted down from the largest
SizeAt(k) == MaxSize - k
SizeCount == MaxSize + NegSizes

(***************************************************************************)
(* The Pillow build.  A strict build raises ValueError for a box with      *)
(* x1 < x0 and for a font size <= 0; a lenient one draws nothing for the   *)
(* box and loads the font.                                                 *)
(***************************************************************************)
strictBox      == pillow = "strict"
strictFontSize == pillow = "strict"

(***************************************************************************)
(* draw_icon: the scale factor and the lengths derived from it.            *)
(***************************************************************************)
Ref == 1024

\* int(c * s), s = size / 1024.0, for size >= 0
Scaled(c, n) == (c * n) \div Ref

corner_r(n) == (n * 2237) \div 10000
lens_r(n)   == Scaled(320, n)
\* the centre, doubled: center = size / 2, lens_cy = center + int(20 * s)
lens_cx2(n) == n
lens_cy2(n) == n + 2 * Scaled(20, n)
\* a slip: the ring's margin taken as 20 units instead of 40
outer_r_narrow(n) == lens_r(n) + Scaled(20, n)
outer_r(n)  == lens_r(n) + Scaled(40, n)
\* a slip: a band wider than the margin between the two discs
ring_w_wide(n) == Scaled(50, n)
ring_w(n)   == Scaled(30, n)
r_ring(n, i) == outer_r(n) - i
blade_r(n)  == Scaled(240, n)
inner_r(n)  == Scaled(120, n)
n_blades    == 6
glass_r(n)  == Scaled(100, n)
hl_x2(n)    == lens_cx2(n) - 2 * Scaled(30, n)
hl_y2(n)    == lens_cy2(n) - 2 * Scaled(30, n)
hl_r(n)     == Scaled(45, n)
ref_r(n, i) == glass_r(n) - Scaled(10 + i * 15, n)
dot_x2(n)   == lens_cx2(n) + 2 * Scaled(220, n)
dot_y2(n)   == lens_cy2(n) - 2 * Scaled(220, n)
dot_r(n)    == Scaled(55, n)
glow_n(n)   == Scaled(40, n)
hl_dot_r(n) == Scaled(18, n)
hl_dot_x2(n) == dot_x2(n) - 2 * Scaled(12, n)
hl_dot_y2(n) == dot_y2(n) - 2 * Scaled(12, n)
wave_r(n, i) == dot_r(n) + Scaled(30 + i * 28, n)
arc_width(n) == IF Scaled(3, n) > 1 THEN Scaled(3, n) ELSE 1
text_y2(n)  == lens_cy2(n) + 2 * Scaled(290, n)
font_size(n) == Scaled(72, n)

\* alpha = int(80 * (1 - i / hl_r) ** 2), evaluated only with hl_r >= i >= 1
hl_alpha(n, i) == (80 * (hl_r(n) - i) * (hl_r(n) - i)) \div (hl_r(n) * hl_r(n))
\* alpha = int(60 * (1 - i / (40 * s))), evaluated only with 40 * s >= i >= 1
glow_alpha(n, i) == (60 * (40 * n - Ref * i)) \div (40 * n)
wave_alpha(i) == 150 - i * 40


(***************************************************************************)
(* The canvas.  Probe pixels, as functions of size.                        *)
(***************************************************************************)
Pt(px, py) == [x |-> px, y |-> py]

\* cos and sin (x 1000) of the four vertex angles of blade i: angle,
\* mid_angle (with the 0.85 folded in), mid_angle + 0.15, angle + 0.15
BladeTrig ==
    << <<0, -1000, 425, -736, 624, -782, 149, -989>>,
       <<866, -500, 850, 0, 989, 149, 931, -365>>,
       <<866, 500, 425, 736, 365, 931, 782, 624>>,
       <<0, 1000, -425, 736, -624, 782, -149, 989>>,
       <<-866, 500, -850, 0, -989, -149, -931, 365>>,
       <<-866, -500, -425, -736, -365, -931, -782, -624>> >>

\* the polygon of blade i (0-based), its vertices truncated to pixels
pts(n, i) ==
    LET t  == BladeTrig[i + 1]
        vx(r, c) == (lens_cx2(n) * 500 + r * c) \div 1000
        vy(r, c) == (lens_cy2(n) * 500 + r * c) \div 1000
    IN  << Pt(vx(blade_r(n), t[1]), vy(blade_r(n), t[2])),
           Pt(vx(blade_r(n), t[3]), vy(blade_r(n), t[4])),
           Pt(vx(inner_r(n), t[5]), vy(inner_r(n), t[6])),
           Pt(vx(inner_r(n), t[7]), vy(inner_r(n), t[8])) >>

ProbeNames == {"corner", "edge", "centre", "highlight", "blade", "halo", "wave"}

Probe(name, n) ==
    CASE name = "corner"    -> Pt(0, 0)
      [] name = "edge"      -> Pt(0, n \div 2)
      [] name = "centre"    -> Pt(n \div 2, n \div 2)
      [] name = "highlight" -> Pt(hl_x2(n) \div 2, hl_y2(n) \div 2)
      [] name = "blade"     ->
            LET v == pts(n, 0)
            IN  Pt((v[1].x + v[2].x + v[3].x + v[4].x) \div 4,
                   (v[1].y + v[2].y + v[3].y + v[4].y) \div 4)
      [] name = "halo"      -> Pt(dot_x2(n) \div 2 + dot_r(n) + 1, dot_y2(n) \div 2)
      [] name = "wave"      -> Pt(dot_x2(n) \div 2, dot_y2(n) \div 2 - wave_r(n, 2))

\* the probes that are pixels of an n x n canvas
Pixels(n) == {p \in ProbeNames :
                 /\ Probe(p, n).x >= 0 /\ Probe(p, n).x < n
                 /\ Probe(p, n).y >= 0 /\ Probe(p, n).y < n}

(***************************************************************************)
(* Shapes.  ImageDraw receives the box [cx - r, cy - r, cx + r, cy + r]    *)
(* and truncates it to pixels: the disc of radius r about the truncated    *)
(* centre.  Centres come doubled (cx2 = 2 * cx).                           *)
(***************************************************************************)
Sq(v) == v * v

\* pixel q lies in the disc of radius r about (cx2 / 2, cy2 / 2)
InDisc(q, cx2, cy2, r) ==
    /\ r >= 0
    /\ Sq(q.x - cx2 \div 2) + Sq(q.y - cy2 \div 2) <= Sq(r)

\* ... on its outline of width w
InOutline(q, cx2, cy2, r, w) ==
    InDisc(q, cx2, cy2, r) /\ ~InDisc(q, cx2, cy2, r - w)

\* ... on the part of the outline between 200 and 290 degrees (clockwise from
\* 3 o'clock): tan(20 degrees) = 0.364
InArc(q, cx2, cy2, r, w) ==
    LET dx == q.x - cx2 \div 2
        dy == q.y - cy2 \div 2
    IN  /\ InOutline(q, cx2, cy2, r, w)
        /\ dy < 0
        /\ \/ dx <= 0 /\ 1000 * (0 - dy) >= 364 * (0 - dx)
           \/ dx >= 0 /\ 1000 * dx <= 364 * (0 - dy)

Min4(a, b, c, d) == CHOOSE m \in {a, b, c, d} : \A k \in {a, b, c, d} : m <= k
Max4(a, b, c, d) == CHOOSE m \in {a, b, c, d} : \A k \in {a, b, c, d} : m >= k

\* pixel q lies in the convex quadrilateral v
InPolygon(q, v) ==
    /\ q.x >= Min4(v[1].x, v[2].x, v[3].x, v[4].x)
    /\ q.x <= Max4(v[1].x, v[2].x, v[3].x, v[4].x)
    /\ q.y >= Min4(v[1].y, v[2].y, v[3].y, v[4].y)
    /\ q.y <= Max4(v[1].y, v[2].y, v[3].y, v[4].y)
    /\ \A k \in 1..4 :
          LET a == v[k]
              b == v[(k % 4) + 1]
          IN  (b.x - a.x) * (q.y - a.y) - (b.y - a.y) * (q.x - a.x) >= 0

\* pixel q lies in the rounded rectangle [0, 0, n - 1, n - 1] of radius r
InRounded(q, n, r) ==
    LET dx == IF q.x < r THEN r - q.x
              ELSE IF q.x > n - 1 - r THEN q.x - (n - 1 - r) ELSE 0
        dy == IF q.y < r THEN r - q.y
              ELSE IF q.y > n - 1 - r THEN q.y - (n - 1 - r) ELSE 0
    IN  dx = 0 \/ dy = 0 \/ Sq(dx) + Sq(dy) <= Sq(r)

InMask(p, n) == InRounded(Probe(p, n), n, corner_r(n))

(***************************************************************************)
(* Drawing on the canvas a (probe -> alpha) of an n x n image.             *)
(***************************************************************************)
\* the probes' pixels on an n x n canvas a
At(a, n) == [p \in DOMAIN a |-> Probe(p, n)]

ellipse_fill(a, n, cx2, cy2, r, al) ==
    LET q == At(a, n)
    IN  [p \in DOMAIN a |-> IF InDisc(q[p], cx2, cy2, r) THEN al ELSE a[p]]

(***************************************************************************)
(* draw_icon's passes, as functions on the canvas.  A loop of draws writes *)
(* a pixel once per iteration that covers it, and the last write stays.    *)
(***************************************************************************)
\* the gradient: every row is drawn with alpha 255
gradient(a) == [p \in DOMAIN a |-> 255]

\* img.putalpha(mask): the alpha channel becomes the mask
putalpha(a, n) == [p \in DOMAIN a |-> IF InMask(p, n) THEN 255 ELSE 0]

Smallest(s) == CHOOSE m \in s : \A k \in s : m <= k
Largest(s)  == CHOOSE m \in s : \A k \in s : m >= k

\* for i in range(ring_w): outline of radius outer_r - i
ring_loop(a, n) ==
    LET q  == At(a, n)
        cx == lens_cx2(n)
        cy == lens_cy2(n)
    IN  [p \in DOMAIN a |->
            IF \E i \in 0..(ring_w(n) - 1) :
                   InOutline(q[p], cx, cy, r_ring(n, i), 1)
            THEN 255 ELSE a[p]]

lens_pass(a, n) ==
    LET a1 == ellipse_fill(a, n, lens_cx2(n), lens_cy2(n), outer_r(n), 255)
        a2 == ring_loop(a1, n)
    IN  ellipse_fill(a2, n, lens_cx2(n), lens_cy2(n), lens_r(n), 255)

blade_alpha == 200

\* for i in range(n_blades): the blade's polygon
blade_loop(a, n) ==
    LET q == At(a, n)
    IN  [p \in DOMAIN a |->
            IF \E i \in 0..(n_blades - 1) : InPolygon(q[p], pts(n, i))
            THEN blade_alpha ELSE a[p]]

\* for i in range(hl_r, 0, -1): disc of radius i; the smallest i is drawn last
hl_loop(a, n) ==
    LET q  == At(a, n)
        cx == hl_x2(n)
        cy == hl_y2(n)
        hr == hl_r(n)
    IN  [p \in DOMAIN a |->
            LET hit == {i \in 1..hr : InDisc(q[p], cx, cy, i)}
            IN  IF hit = {} THEN a[p] ELSE hl_alpha(n, Smallest(hit))]

\* for i in range(3): outline of radius ref_r, if ref_r > 0
reflection_loop(a, n) ==
    LET q == At(a, n)
    IN  [p \in DOMAIN a |->
            IF \E i \in 0..2 :
                   /\ ref_r(n, i) > 0
                   /\ InOutline(q[p], lens_cx2(n), lens_cy2(n), ref_r(n, i), 1)
            THEN 30 ELSE a[p]]

glass_pass(a, n) ==
    LET a1 == ellipse_fill(a, n, lens_cx2(n), lens_cy2(n), glass_r(n), 255)
        a2 == hl_loop(a1, n)
    IN  reflection_loop(a2, n)

\* for i in range(int(40 * s), 0, -1): disc of radius dot_r + i
glow_loop(a, n) ==
    LET q  == At(a, n)
        cx == dot_x2(n)
        cy == dot_y2(n)
        dr == dot_r(n)
    IN  [p \in DOMAIN a |->
            LET hit == {i \in 1..glow_n(n) : InDisc(q[p], cx, cy, dr + i)}
            IN  IF hit = {} THEN a[p] ELSE glow_alpha(n, Smallest(hit))]

indicator_pass(a, n) ==
    LET a1 == glow_loop(a, n)
        a2 == ellipse_fill(a1, n, dot_x2(n), dot_y2(n), dot_r(n), 255)
    IN  ellipse_fill(a2, n, hl_dot_x2(n), hl_dot_y2(n), hl_dot_r(n), 120)

\* for i in range(3): arc of radius wave_r; the largest i is drawn last
wave_loop(a, n) ==
    LET q == At(a, n)
    IN  [p \in DOMAIN a |->
            LET hit == {i \in 0..2 :
                           InArc(q[p], dot_x2(n), dot_y2(n), wave_r(n, i),
                                 arc_width(n))}
            IN  IF hit = {} THEN a[p] ELSE wave_alpha(Largest(hit))]

\* the divisors the loops divide by, one per iteration that runs
ring_divisors(n) == {ring_w(n) : i \in 0..(ring_w(n) - 1)}
hl_divisors(n)   == {hl_r(n) : i \in 1..hl_r(n)}
\* 40 * s is a float, zero only when size is
glow_divisors(n) == {40 * n : i \in 1..glow_n(n)}

(***************************************************************************)
(* Fonts.                                                                  *)
(***************************************************************************)
Preferred == "SFCompact.ttf"
Secondary == "Helvetica.ttc"
Default   == "load_default"
SystemFonts == {Preferred, Secondary}

\* ImageFont.truetype(path, fs): the font, or the exception it raises
truetype(path, fs, avail) ==
    IF fs <= 0 /\ strictFontSize THEN "ValueError"
    ELSE IF path \in avail THEN "ok" ELSE "OSError"

\* the try / except (OSError, IOError) chain: the font selected and the
\* exception that leaves the chain
select_font(fs, avail) ==
    LET o1 == truetype(Preferred, fs, avail)
        o2 == truetype(Secondary, fs, avail)
    IN  IF o1 = "ok" THEN [font |-> Preferred, exc |-> "none"]
        ELSE IF o1 # "OSError" THEN [font |-> "none", exc |-> o1]
        ELSE IF o2 = "ok" THEN [font |-> Secondary, exc |-> "none"]
        ELSE IF o2 # "OSError" THEN [font |-> "none", exc |-> o2]
        ELSE [font |-> Default, exc |-> "none"]

\* the probes the label's glyphs can cover: those at or below its top
label_band(n) == {p \in Pixels(n) : 2 * Probe(p, n).y >= text_y2(n)}
label_alpha == 200

\* draw.text: the glyph pixels take the fill's alpha
text(a, hit) == [p \in DOMAIN a |-> IF p \in hit THEN label_alpha ELSE a[p]]


(***************************************************************************)
(* draw_icon(size), pass by pass.                                          *)
(***************************************************************************)
NoCanvas == [p \in {} |-> 0]
NoLens   == [cy2 |-> 0, lens_r |-> 0, outer_r |-> 0, strokes |-> <<>>]

\* lines 42-46 and 54-59: the lens geometry of an n x n icon, and the radius
\* of every stroke of the metallic ring, in the order drawn
lens_geometry(n) ==
    [cy2     |-> lens_cy2(n),
     lens_r  |-> lens_r(n),
     outer_r |-> outer_r(n),
     strokes |-> [k \in 1..ring_w(n) |-> r_ring(n, k - 1)]]

\* Image.new("RGBA", (n, n), (0, 0, 0, 0)): a negative size is a ValueError
\* ("Width and height must be >= 0"), an empty image is allowed
Enter(n, who) ==
    /\ pc = "idle"
    /\ caller' = who
    /\ size' = n
    /\ font' = "none"
    /\ passes' = <<>>
    /\ lens' = NoLens
    /\ IF n < 0
       THEN /\ pc' = "raised"
            /\ exc' = "ValueError"
            /\ img' = NoCanvas
            /\ dim' = <<0, 0>>
       ELSE /\ pc' = "background"
            /\ exc' = "none"
            /\ img' = [p \in Pixels(n) |-> 0]
            /\ dim' = <<n, n>>

\* draw_icon called on its own
DirectCall(n) ==
    /\ mpc = "idle"
    /\ Enter(n, "direct")
    /\ UNCHANGED <<envVars, mainVars>>

\* a pass that draws: the canvas after it, or the exception it raises
Step(here, next, raises, after, geometry) ==
    /\ pc = here
    /\ passes' = Append(passes, here)
    /\ IF raises # "none"
       THEN /\ pc' = "raised"
            /\ exc' = raises
            /\ img' = img
            /\ lens' = lens
       ELSE /\ pc' = next
            /\ exc' = exc
            /\ img' = after
            /\ lens' = geometry
    /\ UNCHANGED <<caller, size, dim, font, envVars, mainVars>>

Background == Step("background", "mask", "none", gradient(img), lens)

\* mask_draw.rounded_rectangle([0, 0, size - 1, size - 1], ...); img.putalpha(mask)
Mask ==
    Step("mask", "lens",
         IF size - 1 < 0 /\ strictBox THEN "ValueError" ELSE "none",
         putalpha(img, size), lens)

Lens ==
    Step("lens", "iris",
         IF 0 \in ring_divisors(size) THEN "ZeroDivisionError" ELSE "none",
         lens_pass(img, size), lens_geometry(size))

Iris == Step("iris", "glass", "none", blade_loop(img, size), lens)

Glass ==
    Step("glass", "indicator",
         IF 0 \in hl_divisors(size) THEN "ZeroDivisionError" ELSE "none",
         glass_pass(img, size), lens)

Indicator ==
    Step("indicator", "waves",
         IF 0 \in glow_divisors(size) THEN "ZeroDivisionError" ELSE "none",
         indicator_pass(img, size), lens)

Waves == Step("waves", "font", "none", wave_loop(img, size), lens)

\* lines 178-185: the font
Font ==
    /\ pc = "font"
    /\ \E avail \in IF fontsKnown THEN {fontsOK} ELSE SUBSET SystemFonts :
          LET f == select_font(font_size(size), avail)
          IN  /\ fontsOK' = avail
              /\ fontsKnown' = TRUE
              /\ font' = f.font
              /\ exc' = f.exc
              /\ pc' = IF f.exc = "none" THEN "label" ELSE "raised"
    /\ UNCHANGED <<caller, size, img, dim, lens, passes, pillow, mainVars>>

\* lines 187-193: the label, and the canvas is returned
Label ==
    /\ pc = "label"
    /\ \E hit \in SUBSET label_band(size) :
          img' = text(img, hit)
    /\ passes' = Append(passes, "label")
    /\ pc' = "done"
    /\ UNCHANGED <<caller, size, dim, lens, font, exc, envVars, mainVars>>

\* the direct caller takes the canvas or the exception; the next direct call
\* is on a machine of its own
Return ==
    /\ caller = "direct"
    /\ pc \in {"done", "raised"}
    /\ pc' = "idle"
    /\ caller' = "none"
    /\ size' = 0
    /\ img' = NoCanvas
    /\ dim' = <<0, 0>>
    /\ lens' = NoLens
    /\ font' = "none"
    /\ exc' = "none"
    /\ passes' = <<>>
    /\ fontsKnown' = FALSE
    /\ fontsOK' = {}
    /\ UNCHANGED <<pillow, mainVars>>

Passes ==
    \/ Background \/ Mask \/ Lens \/ Iris \/ Glass
    \/ Indicator \/ Waves \/ Font \/ Label


(***************************************************************************)
(* main(): the icon set.                                                   *)
(***************************************************************************)
sizes ==
    << <<16, 1>>, <<16, 2>>, <<32, 1>>, <<32, 2>>, <<128, 1>>, <<128, 2>>,
       <<256, 1>>, <<256, 2>>, <<512, 1>>, <<512, 2>> >>

master_px == 1024

px_size(pt_size, scale) == pt_size * scale

\* f"icon_{pt_size}x{pt_size}@{scale}x.png"
filename(pt_size, scale) ==
    "icon_" \o ToString(pt_size) \o "x" \o ToString(pt_size)
            \o "@" \o ToString(scale) \o "x.png"

scale_label(scale) == ToString(scale) \o "x"
size_label(pt_size) == ToString(pt_size) \o "x" \o ToString(pt_size)

\* a slip: the size label taken from the pixel size
entry_px(pt_size, scale) ==
    [filename |-> filename(pt_size, scale),
     idiom    |-> "mac",
     scale    |-> scale_label(scale),
     size     |-> size_label(px_size(pt_size, scale))]

\* the manifest entry appended for one output
entry(pt_size, scale) ==
    [filename |-> filename(pt_size, scale),
     idiom    |-> "mac",
     scale    |-> scale_label(scale),
     size     |-> size_label(pt_size)]

\* {"author": "xcode", "version": 1}
info == [author |-> "xcode", version |-> 1]

NoImage == [px |-> 0, alpha |-> NoCanvas, src |-> "none"]

\* a slip: an in-place resize (Image.thumbnail) shrinks the master itself
resize_inplace(m, px) ==
    [icon   |-> [px |-> px, alpha |-> m.alpha, src |-> "resized"],
     master |-> [px |-> px, alpha |-> m.alpha, src |-> m.src]]

\* master.resize((px, px), Image.LANCZOS): a new image, the master is left alone
resize(m, px) ==
    [icon   |-> [px |-> px, alpha |-> m.alpha, src |-> "resized"],
     master |-> m]

\* lines 227-230: the image saved for a target of px pixels
derive(m, px) ==
    IF px = 1024 THEN [icon |-> m, master |-> m] ELSE resize(m, px)

ManifestPath == "AppIcon.appiconset/Contents.json"
AssetsPath   == "Assets.xcassets/Contents.json"
\* a JSON file in the log of files written
Json(path) == [name |-> path, want |-> 0, px |-> 0, src |-> "json"]

NoManifest == [kind |-> "absent", images |-> <<>>, info |-> info]
NoAssets   == [kind |-> "absent", info |-> info]
\* a file opened for writing whose write failed
Truncated(f) == [f EXCEPT !.kind = "truncated"]

\* set-level files a user may have put there before the first run
OtherAssets == [kind |-> "json", info |-> [author |-> "someone", version |-> 2]]

Has(fs, name) == \E k \in 1..Len(fs) : fs[k].name = name
\* the file name is written (again): its size is the image's
Put(fs, name, px) ==
    IF Has(fs, name)
    THEN [k \in 1..Len(fs) |->
             IF fs[k].name = name THEN [name |-> name, px |-> px] ELSE fs[k]]
    ELSE Append(fs, [name |-> name, px |-> px])

\* an exception leaves main(): nothing after the failing statement runs
Fail(e) ==
    /\ mpc' = "failed"
    /\ mexc' = e

Start ==
    /\ mpc \in {"idle", "done", "failed"}
    /\ pc = "idle"
    /\ runs < MaxRuns
    /\ runs' = runs + 1
    /\ mpc' = "makedirs"
    /\ master' = NoImage
    /\ renders' = <<>>
    /\ idx' = 1
    /\ contents_images' = <<>>
    /\ printed' = <<>>
    /\ mexc' = "none"
    /\ written' = <<>>
    /\ UNCHANGED <<dirExists, files, manifest, assets, envVars, renderVars>>

\* os.makedirs(icon_dir, exist_ok=True)
MakedirsOK ==
    /\ mpc = "makedirs"
    /\ dirExists' = TRUE
    /\ mpc' = "render"
    /\ UNCHANGED <<runs, files, manifest, assets, master, renders, idx,
                   contents_images, printed, mexc, written, envVars, renderVars>>

MakedirsFail ==
    /\ mpc = "makedirs"
    /\ Fail("OSError")
    /\ UNCHANGED <<runs, dirExists, files, manifest, assets, master, renders, idx,
                   contents_images, printed, written, envVars, renderVars>>

\* master = draw_icon(1024): the call
Render ==
    /\ mpc = "render"
    /\ printed' = Append(printed, "Generating 1024px master icon...")
    /\ renders' = Append(renders, master_px)
    /\ Enter(master_px, "main")
    /\ mpc' = "rendering"
    /\ UNCHANGED <<runs, dirExists, files, manifest, assets, master, idx,
                   contents_images, mexc, written, envVars>>

\* ... and its return: the canvas, or draw_icon's exception leaves main() too
Rendered ==
    /\ mpc = "rendering"
    /\ caller = "main"
    /\ pc \in {"done", "raised"}
    /\ IF pc = "done"
       THEN /\ master' = [px |-> dim[1], alpha |-> img, src |-> "master"]
            /\ mpc' = "save"
            /\ mexc' = mexc
       ELSE /\ master' = master
            /\ Fail(exc)
    /\ pc' = "idle"
    /\ caller' = "none"
    /\ img' = NoCanvas
    /\ dim' = <<0, 0>>
    /\ lens' = NoLens
    /\ exc' = "none"
    /\ passes' = <<>>
    /\ UNCHANGED <<size, font, runs, dirExists, files, manifest, assets, renders,
                   idx, contents_images, printed, written, envVars>>

\* one iteration of the loop over sizes: icon.save succeeds
SaveOK ==
    /\ mpc = "save"
    /\ LET pt == sizes[idx][1]
           sc == sizes[idx][2]
           px == px_size(pt, sc)
           d  == derive(master, px)
       IN  /\ master' = d.master
           /\ files' = Put(files, filename(pt, sc), d.icon.px)
           /\ written' = Append(written, [name |-> filename(pt, sc), want |-> px,
                                          px |-> d.icon.px, src |-> d.icon.src])
           /\ printed' = Append(printed, filename(pt, sc))
           /\ contents_images' = Append(contents_images, entry(pt, sc))
    /\ idx' = idx + 1
    /\ mpc' = IF idx = Len(sizes) THEN "manifest" ELSE "save"
    /\ UNCHANGED <<runs, dirExists, manifest, assets, renders, mexc,
                   envVars, renderVars>>

\* a slip: the failed save is caught and the loop goes on
SaveFailSwallowed ==
    /\ mpc = "save"
    /\ idx' = idx + 1
    /\ mpc' = IF idx = Len(sizes) THEN "manifest" ELSE "save"
    /\ UNCHANGED <<runs, dirExists, files, manifest, assets, master, renders,
                   contents_images, printed, mexc, written, envVars, renderVars>>

\* ... or fails: the file is left as it was, or created empty
SaveFail ==
    /\ mpc = "save"
    /\ LET pt == sizes[idx][1]
           sc == sizes[idx][2]
           d  == derive(master, px_size(pt, sc))
       IN  /\ master' = d.master
           /\ \/ files' = files
              \/ files' = Put(files, filename(pt, sc), 0)
    /\ Fail("OSError")
    /\ UNCHANGED <<runs, dirExists, manifest, assets, renders, idx,
                   contents_images, printed, written, envVars, renderVars>>

\* lines 243-249: the icon set's Contents.json
ManifestOK ==
    /\ mpc = "manifest"
    /\ manifest' = [kind |-> "json", images |-> contents_images, info |-> info]
    /\ written' = Append(written, Json(ManifestPath))
    /\ mpc' = "assets"
    /\ UNCHANGED <<runs, dirExists, files, assets, master, renders, idx,
                   contents_images, printed, mexc, envVars, renderVars>>

ManifestFail ==
    /\ mpc = "manifest"
    /\ \/ manifest' = manifest
       \/ manifest' = Truncated(manifest)
    /\ Fail("OSError")
    /\ UNCHANGED <<runs, dirExists, files, assets, master, renders, idx,
                   contents_images, printed, written, envVars, renderVars>>

\* a slip: the set-level file is written without the os.path.exists test
AssetsOverwrite ==
    /\ mpc = "assets"
    /\ assets' = [kind |-> "json", info |-> info]
    /\ written' = Append(written, Json(AssetsPath))
    /\ mpc' = "report"
    /\ UNCHANGED <<runs, dirExists, files, manifest, master, renders, idx,
                   contents_images, printed, mexc, envVars, renderVars>>

\* lines 252-256: the set-level Contents.json, if it does not exist
AssetsOK ==
    /\ mpc = "assets"
    /\ IF assets.kind = "absent"
       THEN /\ assets' = [kind |-> "json", info |-> info]
            /\ written' = Append(written, Json(AssetsPath))
       ELSE /\ assets' = assets
            /\ written' = written
    /\ mpc' = "report"
    /\ UNCHANGED <<runs, dirExists, files, manifest, master, renders, idx,
                   contents_images, printed, mexc, envVars, renderVars>>

AssetsFail ==
    /\ mpc = "assets"
    /\ assets.kind = "absent"
    /\ \/ assets' = assets
       \/ assets' = Truncated(assets)
    /\ Fail("OSError")
    /\ UNCHANGED <<runs, dirExists, files, manifest, master, renders, idx,
                   contents_images, printed, written, envVars, renderVars>>

\* lines 258-259
Report ==
    /\ mpc = "report"
    /\ printed' = printed \o <<"Icon set generated at", "Contents.json written">>
    /\ mpc' = "done"
    /\ UNCHANGED <<runs, dirExists, files, manifest, assets, master, renders, idx,
                   contents_images, mexc, written, envVars, renderVars>>

(***************************************************************************)
(* Specifications.                                                         *)
(***************************************************************************)
InitEnv ==
    /\ pillow \in {"lenient", "strict"}
    /\ fontsKnown = FALSE
    /\ fontsOK = {}

InitRender ==
    /\ caller = "none"
    /\ size = 0
    /\ pc = "idle"
    /\ img = NoCanvas
    /\ dim = <<0, 0>>
    /\ lens = NoLens
    /\ font = "none"
    /\ exc = "none"
    /\ passes = <<>>

InitMain ==
    /\ mpc = "idle"
    /\ runs = 0
    /\ files = <<>>
    /\ manifest = NoManifest
    /\ master = NoImage
    /\ renders = <<>>
    /\ idx = 1
    /\ contents_images = <<>>
    /\ printed = <<>>
    /\ mexc = "none"
    /\ written = <<>>

\* set generation, on a disk that may hold a set-level file already
Init ==
    /\ InitEnv /\ InitRender /\ InitMain
    /\ dirExists \in BOOLEAN
    /\ assets \in {NoAssets, [kind |-> "json", info |-> info], OtherAssets}

Next ==
    \/ Start \/ MakedirsOK \/ MakedirsFail \/ Render \/ Passes \/ Rendered
    \/ SaveOK \/ SaveFail \/ ManifestOK \/ ManifestFail
    \/ AssetsOK \/ AssetsFail \/ Report

Spec == Init /\ [][Next]_vars

\* draw_icon called on its own with every size
InitDirect ==
    /\ InitEnv /\ InitRender /\ InitMain
    /\ dirExists = FALSE
    /\ assets = NoAssets

NextDirect ==
    \/ \E k \in 0..SizeCount : DirectCall(SizeAt(k))
    \/ Passes
    \/ Return

SpecRender == InitDirect /\ [][NextDirect]_vars


(***************************************************************************)
(* Properties.                                                             *)
(***************************************************************************)
Range(s) == {s[k] : k \in 1..Len(s)}
Images(w) == {k \in 1..Len(w) : w[k].src # "json"}
PxOf(fs, name) == (CHOOSE f \in Range(fs) : f.name = name).px

\* the ten outputs of the fixed list, spelled out
Outputs ==
    { [S |-> 16,  K |-> 1, filename |-> "icon_16x16@1x.png",   size |-> "16x16",   scale |-> "1x"],
      [S |-> 16,  K |-> 2, filename |-> "icon_16x16@2x.png",   size |-> "16x16",   scale |-> "2x"],
      [S |-> 32,  K |-> 1, filename |-> "icon_32x32@1x.png",   size |-> "32x32",   scale |-> "1x"],
      [S |-> 32,  K |-> 2, filename |-> "icon_32x32@2x.png",   size |-> "32x32",   scale |-> "2x"],
      [S |-> 128, K |-> 1, filename |-> "icon_128x128@1x.png", size |-> "128x128", scale |-> "1x"],
      [S |-> 128, K |-> 2, filename |-> "icon_128x128@2x.png", size |-> "128x128", scale |-> "2x"],
      [S |-> 256, K |-> 1, filename |-> "icon_256x256@1x.png", size |-> "256x256", scale |-> "1x"],
      [S |-> 256, K |-> 2, filename |-> "icon_256x256@2x.png", size |-> "256x256", scale |-> "2x"],
      [S |-> 512, K |-> 1, filename |-> "icon_512x512@1x.png", size |-> "512x512", scale |-> "1x"],
      [S |-> 512, K |-> 2, filename |-> "icon_512x512@2x.png", size |-> "512x512", scale |-> "2x"] }

\* C1: a complete run of main() writes exactly 10 image files, one per pair
\* of {16,32,128,256,512} x {1,2}, and exactly one icon-set manifest of exactly
\* 10 entries; every entry's filename is icon_{S}x{S}@{K}x.png, its size is
\* "SxS" with the same S, its scale is "Kx", the image saved under the filename
\* is (S*K) x (S*K) pixels, and no two entries share a filename.
C1_EndToEnd ==
    mpc = "done" =>
        /\ Cardinality(Images(written)) = 10
        /\ {written[k].name : k \in Images(written)} = {o.filename : o \in Outputs}
        /\ Cardinality({k \in 1..Len(written) : written[k].name = ManifestPath}) = 1
        /\ manifest.kind = "json"
        /\ Len(manifest.images) = 10
        /\ \A k \in 1..Len(manifest.images) :
              \E o \in Outputs :
                 /\ manifest.images[k].filename = o.filename
                 /\ manifest.images[k].size = o.size
                 /\ manifest.images[k].scale = o.scale
                 /\ Has(files, o.filename)
                 /\ PxOf(files, o.filename) = o.S * o.K
        /\ \A j, k \in 1..Len(manifest.images) :
              manifest.images[j].filename = manifest.images[k].filename => j = k

C1_Witness ==
    /\ mpc = "done"
    /\ runs = 1
    /\ Len(manifest.images) = 10
    /\ Has(files, "icon_512x512@2x.png")
    /\ PxOf(files, "icon_512x512@2x.png") = 1024

\* C2: after all passes of draw_icon(size), size > 0, the canvas is size x size,
\* every pixel outside the rounded-rectangle mask has alpha 0 and every pixel
\* inside it has alpha 255.
C2_OpaqueInside ==
    (pc = "done" /\ size > 0) =>
        /\ dim = <<size, size>>
        /\ \A p \in DOMAIN img : img[p] = IF InMask(p, size) THEN 255 ELSE 0

\* C3: the set-level Contents.json is written only when it does not exist: a
\* step of set generation changes it only if it was absent, so a file that is
\* there, whatever its content, stays as it is through every later run.
C3_AssetsWrittenOnce ==
    [][assets.kind # "absent" => assets' = assets]_vars

C3_Witness ==
    /\ runs = 2
    /\ mpc = "done"
    /\ assets = OtherAssets
    /\ ~(\E k \in 1..Len(written) : written[k].name = AssetsPath)

\* C4: draw_icon(size) with size <= 0 ends in an invalid-argument error before
\* any drawing pass runs, and returns no canvas.
C4_RejectsNonPositive ==
    (caller = "direct" /\ size <= 0 /\ pc # "idle") =>
        /\ pc = "raised"
        /\ exc = "ValueError"
        /\ passes = <<>>

\* C5: draw_icon(size) runs to completion for every size from 1 up: no step
\* raises, neither a division by zero nor an error from the font step.
C5_NeverRaises ==
    (size >= 1 /\ pc # "idle") => (pc # "raised" /\ exc = "none")

\* C6: once the font step has run, a font is selected, it is the earliest
\* loadable of preferred, secondary, built-in default, and no error of the font
\* step is an error of the render.
C6_FontFallback ==
    (fontsKnown /\ pc \in {"label", "done", "raised"}) =>
        /\ pc # "raised"
        /\ exc = "none"
        /\ font = IF Preferred \in fontsOK THEN Preferred
                  ELSE IF Secondary \in fontsOK THEN Secondary
                  ELSE Default

PastSaves == {"manifest", "assets", "report", "done"}

\* C7: a failing makedirs, save or manifest write stops set generation there
\* with the I/O error: the step that fails saves, logs and prints nothing, the
\* run does nothing more, generation goes past the saves only with all ten
\* images saved and ends only with the manifest written, and the success
\* messages are printed only by a run that did not fail.
C7_IOErrorsPropagate ==
    [][ /\ (mpc # "failed" /\ mpc' = "failed") =>
              /\ mexc' = "OSError"
              /\ written' = written
              /\ contents_images' = contents_images
              /\ printed' = printed
              /\ "Icon set generated at" \notin Range(printed)
        /\ mpc = "failed" =>
              /\ mpc' = "makedirs"
              /\ <<dirExists, files, manifest, assets>>'
                    = <<dirExists, files, manifest, assets>>
        /\ mpc' \in PastSaves =>
              /\ Cardinality(Images(written')) = 10
              /\ \A k \in Images(written') :
                    /\ Has(files', written'[k].name)
                    /\ PxOf(files', written'[k].name) = written'[k].px
        /\ mpc' \in {"report", "done"} =>
              /\ manifest'.kind = "json"
              /\ manifest'.images = contents_images'
              /\ assets'.kind # "absent"
      ]_vars

C7_Witness ==
    /\ mpc = "failed"
    /\ mexc = "OSError"
    /\ idx = 5
    /\ Len(written) = 4
    /\ manifest.kind = "absent"

\* C8: during set generation the renderer is invoked exactly once, at 1024 px,
\* before any file is written; every target pixel size is at most 1024; the
\* image saved is the master as it is when the target is 1024 and a resized
\* copy of the target's size otherwise; and the master is not modified between
\* outputs.
C8_OneMaster ==
    [][ /\ written' # <<>> => renders' = <<1024>>
        /\ \A k \in Images(written') :
              /\ written'[k].want <= 1024
              /\ written'[k].px = written'[k].want
              /\ written'[k].src = IF written'[k].want = 1024
                                   THEN "master" ELSE "resized"
        /\ mpc = "save" => (master' = master /\ master.px = 1024)
      ]_vars

C8_Witness ==
    /\ mpc = "done"
    /\ renders = <<1024>>
    /\ \E k \in Images(written) : written[k].src = "master"
    /\ \E k \in Images(written) : written[k].src = "resized" /\ written[k].px = 16

\* the lens geometry is that of the render in progress
LensDrawn == pc \in {"iris", "glass", "indicator", "waves", "font", "label", "done"}

\* C9 as stated: at every size from 1 up the outer-ring radius is 360 * size /
\* 1024 up to at most one pixel of rounding (and the lens-centre offset and the
\* inner radius are 20 and 320 times size / 1024 up to one pixel).
C9_WithinOnePixel ==
    (LensDrawn /\ size >= 1) =>
        /\ 360 * size - 1024 * lens.outer_r >= 0
        /\ 360 * size - 1024 * lens.outer_r <= 1024
        /\ 320 * size - 1024 * lens.lens_r >= 0
        /\ 320 * size - 1024 * lens.lens_r <= 1024
        /\ 10 * size - 256 * (lens.cy2 - size) >= 0
        /\ 10 * size - 256 * (lens.cy2 - size) <= 512

\* C9 as amended: the outer-ring radius is the sum of two truncated lengths, so
\* it is 360 * size / 1024 up to less than two pixels (never more than that
\* value); the lens-centre offset and the inner radius are each a single
\* truncated length, within less than one pixel.
C9_WithinTwoPixels ==
    (LensDrawn /\ size >= 1) =>
        /\ 360 * size - 1024 * lens.outer_r >= 0
        /\ 360 * size - 1024 * lens.outer_r < 2048
        /\ 320 * size - 1024 * lens.lens_r >= 0
        /\ 320 * size - 1024 * lens.lens_r < 1024
        /\ 10 * size - 256 * (lens.cy2 - size) >= 0
        /\ 10 * size - 256 * (lens.cy2 - size) < 512

\* size 51: 360 * 51 / 1024 = 17.93 and outer_r = 15 + 1 = 16
C9_Witness ==
    /\ pc = "done"
    /\ size = 51
    /\ lens.outer_r = 16
    /\ lens.lens_r = 15

\* C10: the metallic ring is exactly int(30 * s) strokes of radii outer_r,
\* outer_r - 1, ..., outer_r - int(30 * s) + 1, each strictly greater than
\* lens_r and at most outer_r.
C10_RingBetweenDiscs ==
    (LensDrawn /\ size >= 1) =>
        /\ Len(lens.strokes) = (30 * size) \div 1024
        /\ \A k \in 1..Len(lens.strokes) :
              /\ lens.strokes[k] = lens.outer_r - (k - 1)
              /\ lens.strokes[k] > lens.lens_r
              /\ lens.strokes[k] <= lens.outer_r

C10_Witness ==
    /\ pc = "done"
    /\ size = 1024
    /\ Len(lens.strokes) = 30
    /\ lens.strokes[30] = 331
    /\ lens.lens_r = 320

=============================================================================
